---- MODULE Spec2Model ----
(***************************************************************************)
(* SecureDataExtractor (src/file.py): sanitize -> match -> validate ->    *)
(* mask -> aggregate.  A text is a sequence of one-character strings.      *)
(* Regular expressions are kept as syntax trees and matched by a           *)
(* backtracking matcher that lists the possible end positions in the       *)
(* order Python's re tries them, so the first one is the match re finds.   *)
(***************************************************************************)
EXTENDS Integers, Sequences, FiniteSets, TLC

\* ------------------------------------------------------------ characters

Digits == {"0", "1", "2", "3", "4", "5", "6", "7", "8", "9"}

LowerSeq ==
  <<"a", "b", "c", "d", "e", "f", "g", "h", "i", "j", "k", "l", "m",
    "n", "o", "p", "q", "r", "s", "t", "u", "v", "w", "x", "y", "z">>

UpperSeq ==
  <<"A", "B", "C", "D", "E", "F", "G", "H", "I", "J", "K", "L", "M",
    "N", "O", "P", "Q", "R", "S", "T", "U", "V", "W", "X", "Y", "Z">>

LowerLetters == {LowerSeq[n] : n \in 1..Len(LowerSeq)}

UpperLetters == {UpperSeq[n] : n \in 1..Len(UpperSeq)}

\* \w of re: letters, digits and the underscore
WordChars == Digits \cup LowerLetters \cup UpperLetters \cup {"_"}

\* \s of re: the whitespace characters of the alphabet
Spaces == {" ", "\n"}

\* [-.\s] and [-\s]
PhoneSeps == {"-", "."} \cup Spaces

CardSeps == {"-"} \cup Spaces

\* int(d) for a decimal digit character
DigitVal(c) ==
  CASE c = "0" -> 0 [] c = "1" -> 1 [] c = "2" -> 2 [] c = "3" -> 3
    [] c = "4" -> 4 [] c = "5" -> 5 [] c = "6" -> 6 [] c = "7" -> 7
    [] c = "8" -> 8 [] c = "9" -> 9

\* the two cases of a letter, as re.IGNORECASE compares them
BothCases(c) ==
  IF c \in LowerLetters \cup UpperLetters
  THEN LET n == CHOOSE m \in 1..Len(LowerSeq) : c \in {LowerSeq[m], UpperSeq[m]}
       IN {LowerSeq[n], UpperSeq[n]}
  ELSE {c}

\* ------------------------------------------------------- regex syntax

In(set) == [k |-> "in", set |-> set]

NotIn(set) == [k |-> "notin", set |-> set]

Cat(parts) == [k |-> "cat", parts |-> parts]

\* greedy r{min,max}; r? is Rep(r, 0, 1)
Rep(r, min, max) == [k |-> "rep", r |-> r, min |-> min, max |-> max]

\* greedy r*, greedy r+ and lazy r*?
Star(r) == [k |-> "star", r |-> r]

Plus(r) == Cat(<<r, Star(r)>>)

Lazy(r) == [k |-> "lazy", r |-> r]

WordB == [k |-> "wb"]

Bol == [k |-> "bol"]

Eol == [k |-> "eol"]

D == In(Digits)

\* '.' : any character but a newline, any character at all under re.DOTALL
Dot(dotall) == NotIn(IF dotall THEN {} ELSE {"\n"})

\* a literal string, case-insensitive when ic
Lit(str, ic) ==
  [k |-> "lit", sets |-> [n \in 1..Len(str) |-> IF ic THEN BothCases(str[n]) ELSE {str[n]}]]

\* ----------------------------------------------------------- matcher

IsWordAt(s, i) == i >= 1 /\ i <= Len(s) /\ s[i] \in WordChars

Max(a, b) == IF a > b THEN a ELSE b

Min(a, b) == IF a < b THEN a ELSE b

\* the least member of a non-empty set of positions
Least(ps) == CHOOSE p \in ps : \A q \in ps : p <= q

\* r matches exactly one character: a character class
IsClass(r) == r.k \in {"in", "notin"}

ClassAt(r, s, k) == IF r.k = "in" THEN s[k] \in r.set ELSE s[k] \notin r.set

\* the position after the longest run of at most max characters of class r
\* from i on
RunEnd(r, s, i, max) ==
  LET last == Min(Len(s), i + max - 1)
      stop == {k \in i..last : ~ClassAt(r, s, k)}
  IN IF stop = {} THEN Max(last + 1, i) ELSE Least(stop)

\* the ends of from min to max characters of class r from i on: the longest
\* run first when greedy, the shortest first when lazy
RunEnds(r, min, max, s, i, greedy) ==
  LET e == RunEnd(r, s, i, max)
      n == e - (i + min) + 1
  IN IF n <= 0 THEN <<>>
     ELSE [m \in 1..n |-> IF greedy THEN e - m + 1 ELSE i + min + m - 1]

RECURSIVE Ends(_, _, _), CatEnds(_, _, _, _), CatOver(_, _, _, _, _, _),
          RepEnds(_, _, _, _, _), RepOver(_, _, _, _, _, _),
          LazyEnds(_, _, _), LazyOver(_, _, _, _)

\* the positions after a match of r that starts at position i of s, in the
\* order a backtracking matcher reaches them: a greedy star gives the
\* longest run first, a lazy one the shortest
Ends(r, s, i) ==
  CASE r.k = "in" -> IF i <= Len(s) /\ s[i] \in r.set THEN <<i + 1>> ELSE <<>>
    [] r.k = "notin" -> IF i <= Len(s) /\ s[i] \notin r.set THEN <<i + 1>> ELSE <<>>
    [] r.k = "wb" -> IF IsWordAt(s, i - 1) # IsWordAt(s, i) THEN <<i>> ELSE <<>>
    [] r.k = "bol" -> IF i = 1 THEN <<i>> ELSE <<>>
    [] r.k = "eol" ->
         IF i = Len(s) + 1 \/ (i = Len(s) /\ s[i] = "\n") THEN <<i>> ELSE <<>>
    [] r.k = "lit" ->
         IF i + Len(r.sets) - 1 <= Len(s)
              /\ \A n \in 1..Len(r.sets) : s[i + n - 1] \in r.sets[n]
         THEN <<i + Len(r.sets)>> ELSE <<>>
    [] r.k = "cat" -> CatEnds(r.parts, 1, s, i)
    [] r.k = "rep" ->
         IF IsClass(r.r) THEN RunEnds(r.r, r.min, r.max, s, i, TRUE)
         ELSE RepEnds(r.r, r.min, r.max, s, i)
    [] r.k = "star" ->
         IF IsClass(r.r) THEN RunEnds(r.r, 0, Len(s), s, i, TRUE)
         ELSE RepEnds(r.r, 0, Len(s), s, i)
    [] r.k = "lazy" ->
         IF IsClass(r.r) THEN RunEnds(r.r, 0, Len(s), s, i, FALSE)
         ELSE LazyEnds(r.r, s, i)

CatEnds(parts, j, s, i) ==
  IF j > Len(parts) THEN <<i>>
  ELSE LET es == Ends(parts[j], s, i) IN CatOver(parts, j, s, es, 1, Len(es))

\* the ends of parts[j+1..] from each of es[lo..hi], in the order of es
CatOver(parts, j, s, es, lo, hi) ==
  IF lo > hi THEN <<>>
  ELSE IF lo = hi THEN CatEnds(parts, j + 1, s, es[lo])
  ELSE LET mid == (lo + hi) \div 2
       IN CatOver(parts, j, s, es, lo, mid) \o CatOver(parts, j, s, es, mid + 1, hi)

RepEnds(r, min, max, s, i) ==
  (IF max <= 0 THEN <<>> ELSE RepOver(r, min, max, s, Ends(r, s, i), 1))
    \o (IF min <= 0 THEN <<i>> ELSE <<>>)

RepOver(r, min, max, s, es, n) ==
  IF n > Len(es) THEN <<>>
  ELSE RepEnds(r, min - 1, max - 1, s, es[n]) \o RepOver(r, min, max, s, es, n + 1)

LazyEnds(r, s, i) == <<i>> \o LazyOver(r, s, Ends(r, s, i), 1)

LazyOver(r, s, es, n) ==
  IF n > Len(es) THEN <<>>
  ELSE LazyEnds(r, s, es[n]) \o LazyOver(r, s, es, n + 1)

\* the end of the match of r at position i, or 0 when r does not match there
MatchEnd(r, s, i) ==
  LET es == Ends(r, s, i) IN IF es = <<>> THEN 0 ELSE es[1]

Slice(s, from, to) == [n \in 1..(to - from) |-> s[from + n - 1]]

RECURSIVE Walk(_, _)
\* the spans a scan from position i on meets, given for every position the
\* end of the match that starts there (0 for none): the leftmost match, then
\* on from its end
Walk(ends, i) ==
  LET hits == {j \in i..Len(ends) : ends[j] # 0}
  IN IF hits = {} THEN <<>>
     ELSE LET j == Least(hits)
          IN <<(<<j, ends[j]>>)>> \o Walk(ends, IF ends[j] = j THEN j + 1 ELSE ends[j])

\* the <<start, end>> spans of the non-overlapping matches of r in s from
\* position i on, leftmost first (the scan of re.findall and re.sub)
Scan(r, s, i) ==
  Walk([j \in 1..Len(s) |-> IF j < i THEN 0 ELSE MatchEnd(r, s, j)], i)

\* re.findall(r, s) for a pattern without capturing groups
FindAll(r, s) ==
  LET sp == Scan(r, s, 1) IN [n \in 1..Len(sp) |-> Slice(s, sp[n][1], sp[n][2])]

RECURSIVE Cut(_, _, _, _, _)
\* s from position from on, with the spans sp[n..] replaced by repl
Cut(s, repl, sp, n, from) ==
  IF n > Len(sp) THEN Slice(s, from, Len(s) + 1)
  ELSE Slice(s, from, sp[n][1]) \o repl \o Cut(s, repl, sp, n + 1, sp[n][2])

\* re.sub(r, repl, s)
Sub(r, repl, s) == Cut(s, repl, Scan(r, s, 1), 1, 1)

\* re.match(r, s) is not None
Matches(r, s) == MatchEnd(r, s, 1) # 0

\* re.search(r, s) is not None
Contains(r, s) == Scan(r, s, 1) # <<>>

\* ----------------------------------------------------------- patterns

Opt(r) == Rep(r, 0, 1)

\* r'\b(?:\+1[-.\s]?)?(?:\(?\d{3}\)?[-.\s]?)?\d{3}[-.\s]?\d{4}\b'
PhoneRe ==
  Cat(<<WordB,
        Opt(Cat(<<In({"+"}), In({"1"}), Opt(In(PhoneSeps))>>)),
        Opt(Cat(<<Opt(In({"("})), Rep(D, 3, 3), Opt(In({")"})), Opt(In(PhoneSeps))>>)),
        Rep(D, 3, 3), Opt(In(PhoneSeps)), Rep(D, 4, 4), WordB>>)

\* r'\b(?:\d{4}[-\s]?){3}\d{4}\b'
CardRe ==
  Cat(<<WordB, Rep(Cat(<<Rep(D, 4, 4), Opt(In(CardSeps))>>), 3, 3), Rep(D, 4, 4), WordB>>)

\* r'#[A-Za-z][A-Za-z0-9_]*\b'
HashtagRe ==
  Cat(<<In({"#"}), In(LowerLetters \cup UpperLetters), Star(In(WordChars)), WordB>>)

\* r'\$\d{1,3}(?:,\d{3})*(?:\.\d{2})?'
CurrencyRe ==
  Cat(<<In({"$"}), Rep(D, 1, 3), Star(Cat(<<In({","}), Rep(D, 3, 3)>>)),
        Opt(Cat(<<In({"."}), Rep(D, 2, 2)>>))>>)

\* r'<script[^>]*>.*?</script>' with re.IGNORECASE | re.DOTALL
ScriptRe ==
  Cat(<<Lit(<<"<", "s", "c", "r", "i", "p", "t">>, TRUE), Star(NotIn({">"})), In({">"}),
        Lazy(Dot(TRUE)),
        Lit(<<"<", "/", "s", "c", "r", "i", "p", "t", ">">>, TRUE)>>)

\* r'javascript:' with re.IGNORECASE
JsRe == Lit(<<"j", "a", "v", "a", "s", "c", "r", "i", "p", "t", ":">>, TRUE)

\* r'^[0\s\-\.\(\)]+$'
ZerosRe == Cat(<<Bol, Plus(In({"0", "-", ".", "(", ")"} \cup Spaces)), Eol>>)

\* r'\d' and r'\D'
DigitRe == D

NonDigitRe == NotIn(Digits)

\* ------------------------------------------------------------- texts

\* A text argument is body followed by pad spaces: the run-length form of a
\* long text.  Every pattern of the program ends in a character that is
\* not a space, and \b sees a space as it sees the end of the text, so the
\* trailing spaces are part of no match and the matches of body are the
\* matches of the whole text.
TextLen(t) == Len(t.body) + t.pad

NoText == [body |-> <<>>, pad |-> 0]

\* len(text) > 10000
MaxInputLen == 10000

\* the length check off by one
TooLargeOffByOne(t) == TextLen(t) >= MaxInputLen

TooLarge(t) == TextLen(t) > MaxInputLen

\* ----------------------------------------------------------- methods

\* self.patterns, in the insertion order of the dict literal
Order == <<"phone", "credit_card", "hashtag", "currency">>

Categories == {Order[n] : n \in 1..Len(Order)}

PatternTable ==
  [d \in Categories |->
     CASE d = "phone" ->
            "\\b(?:\\+1[-.\\s]?)?(?:\\(?\\d{3}\\)?[-.\\s]?)?\\d{3}[-.\\s]?\\d{4}\\b"
       [] d = "credit_card" -> "\\b(?:\\d{4}[-\\s]?){3}\\d{4}\\b"
       [] d = "hashtag" -> "#[A-Za-z][A-Za-z0-9_]*\\b"
       [] d = "currency" -> "\\$\\d{1,3}(?:,\\d{3})*(?:\\.\\d{2})?"]

\* the syntax tree of a pattern of the table
Compile(pattern) ==
  CASE pattern = PatternTable["phone"] -> PhoneRe
    [] pattern = PatternTable["credit_card"] -> CardRe
    [] pattern = PatternTable["hashtag"] -> HashtagRe
    [] pattern = PatternTable["currency"] -> CurrencyRe

\* a sanitize_input that forgets the javascript: pass
SanitizeScriptsOnly(t) == [body |-> Sub(ScriptRe, <<>>, t.body), pad |-> t.pad]

\* sanitize_input past the length check: the two re.sub calls
sanitize_input(t) ==
  [body |-> Sub(JsRe, <<>>, Sub(ScriptRe, <<>>, t.body)), pad |-> t.pad]

\* value[:-n] and value[-n:]
DropLast(value, n) == Slice(value, 1, Max(Len(value) - n, 0) + 1)

TakeLast(value, n) == Slice(value, Max(Len(value) - n, 0) + 1, Len(value) + 1)

\* masking by position: every character before the last four becomes '*'
MaskEveryCharacter(data_type, value) ==
  IF data_type = "credit_card"
  THEN [n \in 1..Len(DropLast(value, 4)) |-> "*"] \o TakeLast(value, 4)
  ELSE value

mask_sensitive(data_type, value) ==
  IF data_type = "credit_card"
  THEN Sub(DigitRe, <<"*">>, DropLast(value, 4)) \o TakeLast(value, 4)
  ELSE value

\* digits[-k::-2]: from the k-th element from the end towards the front,
\* every second one
RevSlice(digits, k) ==
  LET first == Len(digits) + 1 - k
      n == IF first < 1 THEN 0 ELSE (first + 1) \div 2
  IN [m \in 1..n |-> digits[first - 2 * (m - 1)]]

RECURSIVE SumSeq(_)
SumSeq(q) == IF q = <<>> THEN 0 ELSE Head(q) + SumSeq(Tail(q))

DivMod(a, b) == <<a \div b, a % b>>

\* the doubled digit without its carry
DoubledNoCarry(d) == (2 * d) % 10

\* sum(divmod(2*d, 10))
DoubledDigit(d) == SumSeq(DivMod(2 * d, 10))

\* a checksum that doubles nothing
ValidatePlainSum(number) ==
  LET stripped == Sub(NonDigitRe, <<>>, number)
  IN SumSeq([n \in 1..Len(stripped) |-> DigitVal(stripped[n])]) % 10 = 0

validate_credit_card(number) ==
  LET stripped == Sub(NonDigitRe, <<>>, number)
      digits == [n \in 1..Len(stripped) |-> DigitVal(stripped[n])]
      doubled == RevSlice(digits, 2)
      checksum == SumSeq(RevSlice(digits, 1))
                    + SumSeq([n \in 1..Len(doubled) |-> DoubledDigit(doubled[n])])
  IN checksum % 10 = 0

\* [self.mask_sensitive(dtype, m) for m in matches]
MaskEach(dtype, matches) ==
  [n \in 1..Len(matches) |-> mask_sensitive(dtype, matches[n])]

\* a filter that knows zeros but no separators
PhoneKeptZerosOnly(m) == ~Matches(Cat(<<Bol, Plus(In({"0"})), Eol>>), m)

\* the phone filter: not re.match(r'^[0\s\-\.\(\)]+$', m)
PhoneKept(m) == ~Matches(ZerosRe, m)

\* the loop body without the masking step
PostProcessUnmasked(dtype, matches) ==
  IF dtype = "credit_card" THEN SelectSeq(matches, validate_credit_card)
  ELSE IF dtype = "phone" THEN SelectSeq(matches, PhoneKept)
  ELSE matches

\* the body of the loop of extract between findall and the store
PostProcess(dtype, matches) ==
  IF dtype = "credit_card"
  THEN MaskEach(dtype, SelectSeq(matches, validate_credit_card))
  ELSE IF dtype = "phone" THEN SelectSeq(matches, PhoneKept)
  ELSE matches

EmptyDict == [d \in {} |-> <<>>]

\* what extract(t) returns when it returns: sanitize, then for every
\* category findall, filter and mask
extract(t) ==
  [d \in Categories |->
     PostProcess(d, FindAll(Compile(PatternTable[d]), sanitize_input(t).body))]

\* a store that leaves out a category without matches
StoreIfAny(dict, dtype, matches) ==
  IF matches = <<>> THEN dict
  ELSE [d \in DOMAIN dict \cup {dtype} |-> IF d = dtype THEN matches ELSE dict[d]]

\* results[dtype] = matches if matches else []
Store(dict, dtype, matches) ==
  [d \in DOMAIN dict \cup {dtype} |->
     IF d = dtype THEN (IF matches # <<>> THEN matches ELSE <<>>) ELSE dict[d]]

\* ------------------------------------------------------------- state

VARIABLES
  patterns,  \* self.patterns of the one extractor instance
  pc,        \* per caller: idle, loop (inside extract), returned, raised
  op,        \* per caller: the method of its current or last call
  arg,       \* per caller: the arguments it passed, which stay the caller's
  text,      \* per caller: the local text of extract after sanitize_input
  results,   \* per caller: the local results dict of extract
  idx,       \* per caller: how far the loop over self.patterns has got
  ret        \* per caller: the value returned or the exception raised

vars == <<patterns, pc, op, arg, text, results, idx, ret>>

Callers == {1, 2}

NoArg == [text |-> NoText, data_type |-> "", value |-> <<>>]

NoRet == [kind |-> "none", value |-> <<>>]

Value(v) == [kind |-> "value", value |-> v]

\* raise ValueError("Input exceeds maximum length")
Raised == [kind |-> "raise", value |-> "ValueError"]

Init ==
  /\ patterns = PatternTable
  /\ pc = [c \in Callers |-> "idle"]
  /\ op = [c \in Callers |-> "none"]
  /\ arg = [c \in Callers |-> NoArg]
  /\ text = [c \in Callers |-> NoText]
  /\ results = [c \in Callers |-> EmptyDict]
  /\ idx = [c \in Callers |-> 0]
  /\ ret = [c \in Callers |-> NoRet]

\* the caller is between calls
Ready(c) == pc[c] = "idle"

\* extract(t) up to the loop: the call of sanitize_input, which raises or
\* gives the local text (accepted is the value of text then), and results = {}
ExtractBegin(c, t, accepted) ==
  /\ Ready(c)
  /\ op' = [op EXCEPT ![c] = "extract"]
  /\ arg' = [arg EXCEPT ![c] = [NoArg EXCEPT !.text = t]]
  /\ results' = [results EXCEPT ![c] = EmptyDict]
  /\ IF TooLarge(t)
     THEN /\ pc' = [pc EXCEPT ![c] = "raised"]
          /\ ret' = [ret EXCEPT ![c] = Raised]
          /\ text' = [text EXCEPT ![c] = NoText]
          /\ idx' = [idx EXCEPT ![c] = 0]
     ELSE /\ pc' = [pc EXCEPT ![c] = "loop"]
          /\ ret' = [ret EXCEPT ![c] = NoRet]
          /\ text' = accepted
          /\ idx' = [idx EXCEPT ![c] = 1]
  /\ UNCHANGED patterns

\* an extract that matches the text it was given, not the sanitized one
ExtractCallRaw(c, t) == ExtractBegin(c, t, [text EXCEPT ![c] = t])

\* an extract that keeps the sanitized text in one place for all callers
ExtractCallShared(c, t) == ExtractBegin(c, t, [d \in Callers |-> sanitize_input(t)])

ExtractCall(c, t) == ExtractBegin(c, t, [text EXCEPT ![c] = sanitize_input(t)])

\* one iteration of: for dtype, pattern in self.patterns.items()
ExtractLoop(c) ==
  /\ pc[c] = "loop"
  /\ idx[c] <= Len(Order)
  /\ LET dtype == Order[idx[c]]
         pattern == patterns[dtype]
         matches == PostProcess(dtype, FindAll(Compile(pattern), text[c].body))
     IN results' = [results EXCEPT ![c] = Store(results[c], dtype, matches)]
  /\ idx' = [idx EXCEPT ![c] = idx[c] + 1]
  /\ UNCHANGED <<patterns, pc, op, arg, text, ret>>

\* return results
ExtractReturn(c) ==
  /\ pc[c] = "loop"
  /\ idx[c] > Len(Order)
  /\ pc' = [pc EXCEPT ![c] = "returned"]
  /\ ret' = [ret EXCEPT ![c] = Value(results[c])]
  /\ UNCHANGED <<patterns, op, arg, text, results, idx>>

Fresh(c) ==
  /\ text' = [text EXCEPT ![c] = NoText]
  /\ results' = [results EXCEPT ![c] = EmptyDict]
  /\ idx' = [idx EXCEPT ![c] = 0]

\* a direct call of sanitize_input(t)
SanitizeCall(c, t) ==
  /\ Ready(c)
  /\ op' = [op EXCEPT ![c] = "sanitize_input"]
  /\ arg' = [arg EXCEPT ![c] = [NoArg EXCEPT !.text = t]]
  /\ IF TooLarge(t)
     THEN /\ pc' = [pc EXCEPT ![c] = "raised"]
          /\ ret' = [ret EXCEPT ![c] = Raised]
     ELSE /\ pc' = [pc EXCEPT ![c] = "returned"]
          /\ ret' = [ret EXCEPT ![c] = Value(sanitize_input(t))]
  /\ Fresh(c)
  /\ UNCHANGED patterns

\* a direct call of validate_credit_card(number)
ValidateCall(c, number) ==
  /\ Ready(c)
  /\ op' = [op EXCEPT ![c] = "validate_credit_card"]
  /\ arg' = [arg EXCEPT ![c] = [NoArg EXCEPT !.value = number]]
  /\ pc' = [pc EXCEPT ![c] = "returned"]
  /\ ret' = [ret EXCEPT ![c] = Value(validate_credit_card(number))]
  /\ Fresh(c)
  /\ UNCHANGED patterns

\* a direct call of mask_sensitive(data_type, value)
MaskCall(c, data_type, value) ==
  /\ Ready(c)
  /\ op' = [op EXCEPT ![c] = "mask_sensitive"]
  /\ arg' = [arg EXCEPT ![c] = [NoArg EXCEPT !.data_type = data_type, !.value = value]]
  /\ pc' = [pc EXCEPT ![c] = "returned"]
  /\ ret' = [ret EXCEPT ![c] = Value(mask_sensitive(data_type, value))]
  /\ Fresh(c)
  /\ UNCHANGED patterns

\* the caller has taken the outcome of its call; its frame is gone
Done(c) ==
  /\ pc[c] \in {"returned", "raised"}
  /\ pc' = [pc EXCEPT ![c] = "idle"]
  /\ op' = [op EXCEPT ![c] = "none"]
  /\ arg' = [arg EXCEPT ![c] = NoArg]
  /\ ret' = [ret EXCEPT ![c] = NoRet]
  /\ Fresh(c)
  /\ UNCHANGED patterns

\* ------------------------------------------------------------ inputs

RECURSIVE Concats(_, _)
\* the concatenations of at most k members of toks
Concats(toks, k) ==
  IF k = 0 THEN {<<>>}
  ELSE LET shorter == Concats(toks, k - 1)
       IN shorter \cup {b \o t : b \in shorter, t \in toks}

\* a kept phone, an all-zero phone, a Luhn-valid card with every separator,
\* a card that fails Luhn, a hashtag and an amount, the script tags, javascript:
Tokens ==
  { <<"5", "5", "5", "-", "1", "2", "3", "4", " ">>,
    <<"(", "0", "0", "0", ")", " ", "0", "0", "0", "-", "0", "0", "0", "0",
      " ">>,
    <<"5", "4", "2", "5", "-", "2", "3", "3", "4", " ", "3", "0", "1", "0",
      "9", "9", "0", "3", " ">>,
    <<"1", "2", "3", "4", " ", "5", "6", "7", "8", " ", "9", "0", "1", "2",
      " ", "3", "4", "5", "6", " ">>,
    <<"#", "a", "1", " ", "$", "1", ",", "2", "3", "4", ".", "5", "6", " ">>,
    <<"<", "s", "c", "r", "i", "p", "t", ">">>,
    <<"<", "/", "s", "c", "r", "i", "p", "t", ">">> }

\* whole texts: the documented scenarios and texts whose matches exist only
\* before, or only after, sanitize_input
Scenarios ==
  { <<"C", "a", "l", "l", " ", "5", "5", "5", ".", "9", "8", "7", ".", "6",
      "5", "4", "3", " ", "n", "o", "w">>,
    <<"C", "a", "r", "d", ":", " ", "4", "5", "3", "2", " ", "1", "4", "8",
      "8", " ", "0", "3", "4", "3", " ", "6", "4", "6", "7">>,
    <<"C", "a", "r", "d", ":", " ", "1", "2", "3", "4", " ", "5", "6", "7",
      "8", " ", "9", "0", "1", "2", " ", "3", "4", "5", "6">>,
    <<"#", "P", "a", "y", "m", "e", "n", "t", "P", "r", "o", "c", "e", "s",
      "s", "e", "d", " ", "a", "n", "d", " ", "#", "1", "2", "3", "i", "n",
      "v", "a", "l", "i", "d">>,
    <<"S", "a", "v", "e", " ", "$", "2", "9", "9", ".", "9", "5", " ", "t",
      "o", "d", "a", "y", "!", " ", "T", "o", "t", "a", "l", ":", " ", "$",
      "1", ",", "2", "3", "4", ".", "5", "6">>,
    <<"<", "s", "c", "r", "i", "p", "t", ">", "a", "l", "e", "r", "t", "(",
      "1", ")", "<", "/", "s", "c", "r", "i", "p", "t", ">", " ", "c", "a",
      "l", "l", " ", "0", "0", "0", "-", "0", "0", "0", "-", "0", "0", "0",
      "0">>,
    <<"x", "+", "1", " ", "(", "5", "5", "5", ")", " ", "1", "2", "3", "-",
      "4", "5", "6", "7">>,
    <<"5", "5", "5", "-", "j", "a", "v", "a", "s", "c", "r", "i", "p", "t",
      ":", "1", "2", "3", "4">>,
    <<"4", "1", "1", "1", "1", "1", "1", "1", "1", "1", "1", "1", "1", "1",
      "1", "1", " ", "5", "4", "2", "5", "-", "2", "3", "3", "4", "-", "3",
      "0", "1", "0", "-", "9", "9", "0", "3">>,
    <<"<", "S", "C", "R", "I", "P", "T", " ", "a", ">", "\n", "#", "i", "n",
      "<", "/", "S", "c", "R", "i", "P", "t", ">", "#", "o", "u", "t", " ",
      "$", "1", "2", "3", "4", " ", "$", "1", ",", "2", "3">>,
    <<"5", "5", "5", "-", "1", "2", "3", "4", " ", "<", "s", "c", "r", "i",
      "p", "t", ">", "#", "i", "n", " ", "5", "5", "5", "-", "1", "2", "3",
      "4", "<", "/", "s", "c", "r", "i", "p", "t", ">", " ", "0", "0", "0",
      "-", "0", "0", "0", "0", " ", "5", "5", "5", "-", "1", "2", "3", "4",
      " ", "#", "o", "u", "t">> }

MaxTokens == 3

MaxOver == 1

Bodies == Concats(Tokens, MaxTokens) \cup Scenarios

\* the texts passed to extract and sanitize_input: every body as it is, and
\* the whole texts padded to MaxInputLen and to the lengths just above it
Inputs ==
  {[body |-> b, pad |-> 0] : b \in Bodies}
    \cup {[body |-> b, pad |-> MaxInputLen + k - Len(b)] : b \in Scenarios, k \in 0..MaxOver}

\* card numbers as the card pattern matches them, and shorter values
CardTexts ==
  { <<"5", "4", "2", "5", "2", "3", "3", "4", "3", "0", "1", "0", "9", "9",
      "0", "3">>,
    <<"5", "4", "2", "5", "-", "2", "3", "3", "4", "-", "3", "0", "1", "0",
      "-", "9", "9", "0", "3">>,
    <<"4", "1", "1", "1", " ", "1", "1", "1", "1", " ", "1", "1", "1", "1",
      " ", "1", "1", "1", "1">>,
    <<"5", "4", "2", "5", "-", "2", "3", "3", "4", " ", "3", "0", "1", "0",
      "9", "9", "0", "3">>,
    <<"1", "2", "3", "4", " ", "5", "6", "7", "8", " ", "9", "0", "1", "2",
      " ", "3", "4", "5", "6">>,
    <<"0", "0", "0", "0", "\n", "0", "0", "0", "0", "\n", "0", "0", "0", "0",
      "\n", "0", "0", "0", "0">>,
    <<"1", "2", "3", "4", "5">>,
    <<"1", "2", "3">>,
    <<>> }

MaxShort == 2

RECURSIVE DigitStrings(_)
\* the digit strings of at most k digits
DigitStrings(k) ==
  IF k = 0 THEN {<<>>}
  ELSE LET shorter == DigitStrings(k - 1)
       IN shorter \cup {n \o <<d>> : n \in shorter, d \in Digits}

\* n with the digit at position i replaced by d
Replace(n, i, d) == [n EXCEPT ![i] = d]

BaseCard == <<"5", "4", "2", "5", "2", "3", "3", "4", "3", "0", "1", "0", "9", "9", "0", "3">>

\* the 16-digit numbers that differ from BaseCard in one position and in the
\* last digit: one in ten of them passes the Luhn check
CardFamily ==
  {Replace(Replace(BaseCard, i, a), Len(BaseCard), b) :
     i \in 1..(Len(BaseCard) - 1), a \in Digits, b \in Digits}

Numbers == DigitStrings(MaxShort) \cup CardTexts

\* --------------------------------------------------------- specifications

\* one caller using all four methods of the extractor
Next ==
  \/ \E t \in Inputs : ExtractCall(1, t)
  \/ ExtractLoop(1)
  \/ ExtractReturn(1)
  \/ \E t \in Inputs : SanitizeCall(1, t)
  \/ \E n \in Numbers : ValidateCall(1, n)
  \/ \E d \in Categories, v \in CardTexts : MaskCall(1, d, v)
  \/ Done(1)

Spec == Init /\ [][Next]_vars

\* pieces of script blocks and of javascript:, in both cases, that join into
\* new ones when what stands between them is deleted
SanTokens ==
  { <<"<", "s", "c", "r", "i", "p", "t", " ", "a", ">", "\n">>,
    <<"<", "/", "S", "c", "R", "i", "P", "t", ">">>,
    <<"<", "s", "c", "r">>,
    <<"i", "p", "t", ">">>,
    <<"J", "A", "V", "A">>,
    <<"s", "c", "r", "i", "p", "t", ":">>,
    <<"j", "a", "v", "a", "s", "c", "r", "i", "p", "t", ":">> }

MaxSanTokens == 4

SanInputs == {[body |-> b, pad |-> 0] : b \in Concats(SanTokens, MaxSanTokens)}

\* sanitize_input alone
NextSanitize ==
  \/ \E t \in SanInputs : SanitizeCall(1, t)
  \/ Done(1)

SpecSanitize == Init /\ [][NextSanitize]_vars

\* validate_credit_card alone, on 16-digit numbers
NextLuhn ==
  \/ \E n \in CardFamily : ValidateCall(1, n)
  \/ Done(1)

SpecLuhn == Init /\ [][NextLuhn]_vars

\* two callers sharing the extractor, their calls interleaved
ConcInputs ==
  {[body |-> b, pad |-> 0] : b \in Scenarios}
    \cup {[body |-> <<>>, pad |-> MaxInputLen + k] : k \in 0..MaxOver}

NextConc ==
  \E c \in Callers :
    \/ \E t \in ConcInputs : ExtractCall(c, t)
    \/ ExtractLoop(c)
    \/ ExtractReturn(c)
    \/ \E t \in ConcInputs : SanitizeCall(c, t)
    \/ Done(c)

SpecConc == Init /\ [][NextConc]_vars

\* ----------------------------------------------------------- claims

Alphabet ==
  WordChars \cup Spaces
    \cup {"-", ".", "(", ")", "+", "#", "$", ",", "<", ">", "/", ":", "!", "*"}

IsExtract(c) == op[c] = "extract"

\* C1: an extract call on a text of at most 10000 characters does not raise
\* and returns a mapping whose keys are exactly phone, credit_card, hashtag
\* and currency, each mapped to a sequence of strings (empty when no match
\* survives), never left out.
C1_AllKeys ==
  \A c \in Callers :
    (IsExtract(c) /\ TextLen(arg[c].text) <= 10000) =>
      /\ pc[c] # "raised"
      /\ ret[c].kind # "raise"
      /\ pc[c] = "returned" =>
           /\ ret[c].kind = "value"
           /\ DOMAIN ret[c].value = {"phone", "credit_card", "hashtag", "currency"}
           /\ \A d \in DOMAIN ret[c].value : ret[c].value[d] \in Seq(Seq(Alphabet))

\* an extract call has returned for a text with a script block and a card
\* number that fails the Luhn check: credit_card is there and empty
C1_Witness ==
  /\ IsExtract(1) /\ pc[1] = "returned"
  /\ Contains(ScriptRe, arg[1].text.body)
  /\ Contains(CardRe, arg[1].text.body)
  /\ ret[1].value["credit_card"] = <<>>
  /\ ret[1].value["hashtag"] = <<>>

\* C2: an extract call on a text of more than 10000 characters raises and
\* has no result, not a partial one: the call is rejected with the text
\* neither sanitized nor matched (no local text, no loop iteration, an empty
\* results dict); a direct sanitize_input call raises as well; a text of
\* exactly 10000 characters is accepted.
C2_TooLargeRejected ==
  \A c \in Callers :
    /\ (IsExtract(c) /\ TextLen(arg[c].text) > 10000) =>
         /\ pc[c] = "raised"
         /\ ret[c] = Raised
         /\ results[c] = EmptyDict
         /\ text[c] = NoText
         /\ idx[c] = 0
    /\ (op[c] = "sanitize_input" /\ TextLen(arg[c].text) > 10000) =>
         (pc[c] = "raised" /\ ret[c] = Raised)
    /\ (op[c] \in {"extract", "sanitize_input"} /\ TextLen(arg[c].text) = 10000) =>
         (pc[c] # "raised" /\ ret[c].kind # "raise")

\* an extract call on a text of 10001 characters has raised
C2_Witness ==
  IsExtract(1) /\ pc[1] = "raised" /\ TextLen(arg[1].text) = 10001

\* the digit characters of a string, in order
OnlyDigits(m) == SelectSeq(m, LAMBDA ch : ch \in Digits)

RECURSIVE LuhnTotal(_, _)
\* the Luhn total of the digits at reverse indices r, r+1, ...: as they
\* are at even reverse indices, doubled with 9 off above 9 at odd ones
LuhnTotal(ds, r) ==
  IF r >= Len(ds) THEN 0
  ELSE LET d == DigitVal(ds[Len(ds) - r])
           term == IF r % 2 = 0 THEN d ELSE IF 2 * d > 9 THEN 2 * d - 9 ELSE 2 * d
       IN term + LuhnTotal(ds, r + 1)

StandardLuhn(m) == LuhnTotal(OnlyDigits(m), 0) % 10 = 0

\* C3: validate_credit_card gives the standard Luhn verdict on the digits
\* of its argument, and the credit_card list of extract holds (masked)
\* exactly the card-pattern matches of the sanitized text that pass it, in
\* order; a match that fails is left out and nothing is raised.
C3_LuhnFilter ==
  \A c \in Callers :
    /\ (op[c] = "validate_credit_card" /\ pc[c] = "returned") =>
         ret[c].value = StandardLuhn(arg[c].value)
    /\ (IsExtract(c) /\ "credit_card" \in DOMAIN results[c]) =>
         /\ results[c]["credit_card"] =
              MaskEach("credit_card",
                       SelectSeq(FindAll(CardRe, text[c].body), StandardLuhn))
         /\ pc[c] # "raised"

\* extract has returned for a text with two card matches of which one
\* passes the Luhn check
C3_Witness ==
  /\ IsExtract(1) /\ pc[1] = "returned"
  /\ Len(FindAll(CardRe, text[1].body)) = 2
  /\ Len(ret[1].value["credit_card"]) = 1

\* the whole of v is one match of the card pattern
IsCardMatch(v) == MatchEnd(CardRe, v, 1) = Len(v) + 1

DigitsStarred(m) ==
  [i \in 1..Len(m) |-> IF i <= Len(m) - 4 /\ m[i] \in Digits THEN "*" ELSE m[i]]

StarredEach(ms) == [n \in 1..Len(ms) |-> DigitsStarred(ms[n])]

ZeroSet == {"0", "-", ".", "(", ")"} \cup Spaces

HasOther(m) == \E i \in 1..Len(m) : m[i] \notin ZeroSet

\* C6: no entry of the phone list is made of '0' and separator characters
\* (whitespace, '-', '.', '(', ')') only: the phone list is the phone
\* matches of the sanitized text that have a character outside that set,
\* in order and unchanged.
C6_NoZeroPhones ==
  \A c \in Callers :
    (IsExtract(c) /\ "phone" \in DOMAIN results[c]) =>
      /\ \A n \in 1..Len(results[c]["phone"]) : HasOther(results[c]["phone"][n])
      /\ results[c]["phone"] = SelectSeq(FindAll(PhoneRe, text[c].body), HasOther)

\* extract has returned for a text with an all-zero phone match and a
\* phone match that is kept
C6_Witness ==
  /\ IsExtract(1) /\ pc[1] = "returned"
  /\ \E n \in 1..Len(FindAll(PhoneRe, text[1].body)) :
       ~HasOther(FindAll(PhoneRe, text[1].body)[n])
  /\ ret[1].value["phone"] # <<>>

\* C10: every entry of the credit_card list has the length of the match it
\* came from and exactly 4 digit characters, its last 4, which are the
\* last 4 digits of the match; every other character is '*' or a separator
\* standing where it stood in the match.
C10_OnlyLastFourDigits ==
  \A c \in Callers :
    (IsExtract(c) /\ pc[c] = "returned") =>
      LET ms == SelectSeq(FindAll(CardRe, text[c].body), validate_credit_card)
          es == ret[c].value["credit_card"]
      IN /\ Len(es) = Len(ms)
         /\ \A n \in 1..Len(es) :
              LET e == es[n]
                  m == ms[n]
              IN /\ Len(e) = Len(m)
                 /\ Cardinality({i \in 1..Len(e) : e[i] \in Digits}) = 4
                 /\ TakeLast(e, 4) = TakeLast(OnlyDigits(m), 4)
                 /\ \A i \in 1..(Len(e) - 4) :
                      e[i] = "*" \/ (e[i] \in CardSeps /\ e[i] = m[i])

\* extract has returned a credit_card entry that keeps a separator
C10_Witness ==
  /\ IsExtract(1) /\ pc[1] = "returned"
  /\ \E n \in 1..Len(ret[1].value["credit_card"]) :
       \E i \in 1..Len(ret[1].value["credit_card"][n]) :
          ret[1].value["credit_card"][n][i] \in CardSeps

Denylist == {ScriptRe, JsRe}

\* no script block and no javascript: anywhere in s
Clean(s) == \A r \in Denylist : ~Contains(r, s)

IsSanitize(c) == op[c] = "sanitize_input" /\ pc[c] = "returned"

\* C5 as claimed: the string sanitize returns holds no script block and no
\* javascript:, also where a deletion joined the text around it, and
\* sanitizing it again changes nothing.
C5_NoSpanLeft ==
  \A c \in Callers :
    IsSanitize(c) =>
      /\ Clean(ret[c].value.body)
      /\ sanitize_input(ret[c].value) = ret[c].value

RECURSIVE Removed(_, _, _)
\* how many characters before position p the spans sp[n..] take away
Removed(sp, n, p) ==
  IF n > Len(sp) \/ sp[n][1] >= p THEN 0
  ELSE (IF sp[n][2] < p THEN sp[n][2] ELSE p) - sp[n][1] + Removed(sp, n + 1, p)

\* where position p of a string is after the spans sp are cut out of it
After(sp, p) == p - Removed(sp, 1, p)

\* the positions of the returned string at which sanitize cut something
\* out of t: the cuts of the javascript: pass and, carried through it, the
\* cuts of the script pass before it
Joins(t) ==
  LET sp1 == Scan(ScriptRe, t, 1)
      sp2 == Scan(JsRe, Sub(ScriptRe, <<>>, t), 1)
  IN {After(sp2, sp2[n][1]) : n \in 1..Len(sp2)}
       \cup {After(sp2, After(sp1, sp1[n][1])) : n \in 1..Len(sp1)}

\* C5 as amended: sanitize cuts out what one left-to-right scan per pattern
\* finds and does not look again: every script block or javascript: that
\* is left in the returned string lies across a place where something was
\* cut out, and sanitizing again changes nothing exactly when none is left.
C5_OnlyJoinedSpansLeft ==
  \A c \in Callers :
    IsSanitize(c) =>
      LET out == ret[c].value.body
      IN /\ \A r \in Denylist : \A i \in 1..Len(out) :
              LET e == MatchEnd(r, out, i)
              IN e # 0 => \E j \in Joins(arg[c].text.body) : i < j /\ j < e
         /\ (sanitize_input(ret[c].value) = ret[c].value) <=> Clean(out)
         /\ ret[c].value.pad = arg[c].text.pad

\* sanitize has cut a script block and a javascript: out of a text and what
\* it returned is clean
C5_Witness ==
  /\ IsSanitize(1)
  /\ Contains(ScriptRe, arg[1].text.body)
  /\ Contains(JsRe, Sub(ScriptRe, <<>>, arg[1].text.body))
  /\ ret[1].value.body # <<>>
  /\ Clean(ret[1].value.body)

\* sp lists, leftmost first and without overlap, the matches of r in s that
\* a scan from the left meets: each span is the match at its start, and r
\* matches at no position outside the spans
IsLeftToRight(r, s, sp) ==
  /\ \A n \in 1..Len(sp) :
       /\ sp[n][1] < sp[n][2]
       /\ MatchEnd(r, s, sp[n][1]) = sp[n][2]
       /\ n < Len(sp) => sp[n][2] <= sp[n + 1][1]
  /\ \A i \in 1..Len(s) :
       (\A n \in 1..Len(sp) : i < sp[n][1] \/ i >= sp[n][2]) => MatchEnd(r, s, i) = 0

\* the filter and the mask of a category, entry by entry
Kept(d, m) ==
  CASE d = "phone" -> HasOther(m)
    [] d = "credit_card" -> StandardLuhn(m)
    [] OTHER -> TRUE

Shown(d, m) == IF d = "credit_card" THEN DigitsStarred(m) ELSE m

ShownEach(d, ms) == [n \in 1..Len(ms) |-> Shown(d, ms[n])]

\* C7: for each category the list extract returns is the non-overlapping
\* matches of the category's pattern in the sanitized text, leftmost first,
\* filtered and masked entry by entry: survivors keep their order, a value
\* matched n times and kept gives n entries, and what stood in a removed
\* script block gives none.
C7_MatchesOfSanitizedText ==
  \A c \in Callers :
    (IsExtract(c) /\ pc[c] = "returned") =>
      LET s == sanitize_input(arg[c].text).body
      IN \A d \in Categories :
           LET r == Compile(PatternTable[d])
               sp == Scan(r, s, 1)
               found == [n \in 1..Len(sp) |-> Slice(s, sp[n][1], sp[n][2])]
           IN /\ IsLeftToRight(r, s, sp)
              /\ ret[c].value[d] =
                   ShownEach(d, SelectSeq(found, LAMBDA m : Kept(d, m)))

\* extract has returned for a text whose sanitized form has fewer hashtag
\* matches than the text itself, with a phone number matched twice and kept
\* twice
C7_Witness ==
  /\ IsExtract(1) /\ pc[1] = "returned"
  /\ Len(ret[1].value["hashtag"]) < Len(FindAll(HashtagRe, arg[1].text.body))
  /\ Len(ret[1].value["phone"]) = 2
  /\ ret[1].value["phone"][1] = ret[1].value["phone"][2]

\* C8: when validate_credit_card accepts a 16-digit number, it rejects
\* every number that differs from it in exactly one digit.
C8_SingleDigitErrors ==
  \A c \in Callers :
    (op[c] = "validate_credit_card" /\ pc[c] = "returned"
       /\ Len(arg[c].value) = 16 /\ OnlyDigits(arg[c].value) = arg[c].value
       /\ ret[c].value = TRUE) =>
      \A i \in 1..16 : \A d \in Digits \ {arg[c].value[i]} :
         ~validate_credit_card(Replace(arg[c].value, i, d))

\* validate_credit_card has accepted a 16-digit number other than BaseCard
C8_Witness ==
  /\ op[1] = "validate_credit_card" /\ pc[1] = "returned"
  /\ Len(arg[1].value) = 16
  /\ arg[1].value # BaseCard
  /\ ret[1].value = TRUE

\* C9: whatever the callers do and in whatever order, the pattern table is
\* the one set at construction, a running call leaves the text its caller
\* passed as it is, a too long text raises, and an extract call returns
\* what extract returns for its text on an extractor used by nobody else.
C9_CallsIndependent ==
  /\ [](/\ patterns = PatternTable
        /\ \A c \in Callers :
             /\ (IsExtract(c) /\ pc[c] = "returned") => ret[c].value = extract(arg[c].text)
             /\ pc[c] = "raised" <=>
                  (op[c] \in {"extract", "sanitize_input"} /\ TextLen(arg[c].text) > 10000)
             /\ IsSanitize(c) => ret[c].value = sanitize_input(arg[c].text))
  /\ [][\A c \in Callers : pc[c] = "loop" => arg'[c] = arg[c]]_vars

\* both callers are inside extract at once, on different texts
C9_Witness ==
  /\ pc[1] = "loop" /\ pc[2] = "loop"
  /\ idx[1] > 1 /\ idx[2] > 1
  /\ arg[1].text # arg[2].text
  /\ text[1] # text[2]

====
